---- MODULE Spec2Model ----
(***************************************************************************)
(* A model of the OpenAPI query tool (swagger_API.py) and of the listing   *)
(* aggregator (generate_filelist_json.py).                                 *)
(*                                                                         *)
(* JSON values are uniform records so that any two of them can be          *)
(* compared: t is the kind, and n / b / s / e / o hold the payload of an   *)
(* integer, a boolean, a string, a list (sequence of values) and a dict    *)
(* (ordered sequence of [k, v] entries, Python dicts keep insertion order).*)
(* Python's None and JSON null are the same value, JNull.                  *)
(***************************************************************************)
EXTENDS Integers, Sequences, FiniteSets, TLC

VARIABLES
    utcnow,        \* the reading of datetime.utcnow() used by the samplers
    param,         \* sample_for_type: the parameter declaration passed in
    sampled,       \* sample_for_type: what the call returned
    samplerPc,     \* sample_for_type: "call" before the call, "done" after
    schema,        \* make_sample_body_from_schema: the fragment passed in
    definitions,   \* make_sample_body_from_schema: the definitions table
    result,        \* make_sample_body_from_schema: how the call ended
    schemaPc,      \* make_sample_body_from_schema: "call", then "done"
    operation,     \* build_request_for_operation: the operation object
    swagger,       \* the document being processed
    url,           \* build_request_for_operation: its local url
    params,        \* build_request_for_operation: its local params
    headers,       \* build_request_for_operation: its local headers
    body,          \* build_request_for_operation: its local body
    pIdx,          \* build_request_for_operation: the next parameter of the loop
    buildPc,       \* "params", "return", then "done" or "raised"
    buildExc,      \* the exception that left build_request_for_operation
    req,           \* the request descriptor returned
    pc,            \* __main__: where the run is
    srcIdx,        \* __main__: the position in SWAGGER_URLS
    base_url,      \* __main__: the base URL of the current document
    ops,           \* __main__: list_operations(swagger)
    opIdx,         \* __main__: the position in ops
    idx,           \* __main__: the count of GET operations met
    manifest,      \* __main__: the manifest of the current source
    exec_res,      \* __main__: what execute_request returned
    files,         \* the endpoint files on disk: directory -> file name -> content
    manifests,     \* the manifest.json files on disk: directory -> content
    summary,       \* __main__: the summary dict
    summaryFile,   \* summary.json on disk, <<>> while it is not written
    fetchLog,      \* per source, the GETs fetch_swagger issued and how each ended
    executed,      \* the requests passed to execute_request, in order
    tree,          \* generate_filelist_json: per source, its folder under BASE_DIR
    lsrc,          \* generate_filelist_json main: the position in SOURCES
    fIdx,          \* generate_filelist_json main: the position in os.listdir
    entries,       \* generate_filelist_json main: the entries gathered
    filelist,      \* filelist.json on disk
    listPc         \* generate_filelist_json main: "scan", then "done"

samplerVars == <<param, sampled, samplerPc>>

schemaVars == <<schema, definitions, result, schemaPc>>

buildVars == <<operation, url, params, headers, body, pIdx, buildPc, buildExc>>

vars ==
    <<utcnow, param, sampled, samplerPc, schema, definitions, result, schemaPc,
      operation, swagger, url, params, headers, body, pIdx, buildPc, buildExc, req,
      pc, srcIdx, base_url, ops, opIdx, idx, manifest, exec_res, files, manifests,
      summary, summaryFile, fetchLog, executed, tree, lsrc, fIdx, entries, filelist,
      listPc>>

listVars == <<tree, lsrc, fIdx, entries, filelist, listPc>>

mainVars ==
    <<pc, srcIdx, base_url, ops, opIdx, idx, manifest, exec_res, files, manifests,
      summary, summaryFile, fetchLog, executed>>

----------------------------------------------------------------------------
(* JSON values *)

JNull == [t |-> "null", n |-> 0, b |-> FALSE, s |-> "", e |-> <<>>, o |-> <<>>]

JInt(i) == [t |-> "int", n |-> i, b |-> FALSE, s |-> "", e |-> <<>>, o |-> <<>>]

JBool(x) == [t |-> "bool", n |-> 0, b |-> x, s |-> "", e |-> <<>>, o |-> <<>>]

JStr(x) == [t |-> "str", n |-> 0, b |-> FALSE, s |-> x, e |-> <<>>, o |-> <<>>]

JArr(xs) == [t |-> "list", n |-> 0, b |-> FALSE, s |-> "", e |-> xs, o |-> <<>>]

JObj(kvs) == [t |-> "dict", n |-> 0, b |-> FALSE, s |-> "", e |-> <<>>, o |-> kvs]

\* Python truthiness of a value: `if x`, `x or y`, `not x`.
Truthy(v) ==
    CASE v.t = "null" -> FALSE
      [] v.t = "bool" -> v.b
      [] v.t = "int"  -> v.n # 0
      [] v.t = "str"  -> v.s # ""
      [] v.t = "list" -> v.e # <<>>
      [] OTHER        -> v.o # <<>>

\* The outcome of a call: a returned value, or an exception that left it.
Returned(v) == [ok |-> TRUE, val |-> v, exc |-> ""]

Raised(x) == [ok |-> FALSE, val |-> JNull, exc |-> x]

\* No call made yet.
NoResult == [ok |-> FALSE, val |-> JNull, exc |-> "not called"]

\* datetime.utcnow(): its two renderings, strftime('%Y%m%d') and isoformat()+'Z'.
Clock ==
    { [date |-> "20240229", iso |-> "2024-02-29T23:59:59.000001Z"],
      [date |-> "20261104", iso |-> "2026-11-04T13:12:00Z"] }

----------------------------------------------------------------------------
(* sample_for_type *)

\* A regular-expression pattern is a sequence of characters. re.search(r"\\d", p)
\* looks for a backslash followed by the letter d.
HasBackslashD(p) ==
    \E i \in 1..(Len(p) - 1) : p[i] = "\\" /\ p[i + 1] = "d"

\* A declaration is a dict; `has` is the set of keys present in it, and a key
\* that is absent holds the filler of NoParam.
NoParam ==
    [has |-> {}, in |-> "", name |-> "", type |-> "", format |-> "",
     enum |-> JNull, pattern |-> <<>>, schema |-> <<>>]

\* Mutation: the declared type is looked at before the enum.
sample_for_type_type_first(p, now) ==
    LET t == IF "type" \in p.has THEN p.type ELSE "string"
    IN  IF p.has = {} THEN JStr("sample")
        ELSE IF t = "integer" \/ t = "number" THEN JInt(1)
        ELSE IF t = "boolean" THEN JBool(TRUE)
        ELSE IF "enum" \in p.has /\ p.enum.t = "list" /\ p.enum.e # <<>>
             THEN p.enum.e[1]
        ELSE JStr("sample")

sample_for_type(p, now) ==
    LET t   == IF "type" \in p.has THEN p.type ELSE "string"
        fmt == IF "format" \in p.has THEN p.format ELSE ""
    IN  IF p.has = {} THEN JStr("sample")
        ELSE IF "enum" \in p.has /\ p.enum.t = "list" /\ p.enum.e # <<>>
             THEN p.enum.e[1]
        ELSE IF t = "integer" \/ t = "number" THEN JInt(1)
        ELSE IF t = "boolean" THEN JBool(TRUE)
        ELSE IF fmt = "date" THEN JStr(now.date)
        ELSE IF fmt = "date-time" THEN JStr(now.iso)
        ELSE IF "pattern" \in p.has /\ HasBackslashD(p.pattern) THEN JStr("123")
        ELSE JStr("sample")

\* The declarations the sampler is tried on.
Types == {"integer", "number", "boolean", "string"}

Formats == {"date", "date-time", "int32"}

Enums ==
    { JArr(<<>>), JArr(<<JStr("a")>>), JArr(<<JInt(7), JStr("a")>>),
      JArr(<<JNull, JInt(7)>>), JArr(<<JBool(FALSE)>>), JStr("a") }

Patterns == { <<"^", "\\", "d", "+">>, <<"[", "0", "-", "9", "]">>, <<"d">> }

FlatParams ==
    { [NoParam EXCEPT !.has = h, !.type = ty, !.format = f, !.enum = en,
                      !.pattern = pa] :
        h \in SUBSET {"type", "format", "enum", "pattern"},
        ty \in Types \cup {""}, f \in Formats \cup {""},
        en \in Enums \cup {JNull}, pa \in Patterns \cup {<<>>} }

\* Every key that is present has a value of its own, every absent one the filler.
WellFormed(p) ==
    /\ ("type" \in p.has) = (p.type # "")
    /\ ("format" \in p.has) = (p.format # "")
    /\ ("enum" \in p.has) = (p.enum # JNull)
    /\ ("pattern" \in p.has) = (p.pattern # <<>>)

----------------------------------------------------------------------------
(* make_sample_body_from_schema *)

\* A schema fragment is a dict; `has` is the set of keys present in it. props
\* is the ordered properties mapping ([k, v] entries), items holds the items
\* fragment when the key is present, ref the characters of $ref. NoSchema is
\* the empty dict.
NoSchema ==
    [has |-> {}, ref |-> <<>>, type |-> "", props |-> <<>>, items |-> <<>>,
     format |-> "", enum |-> JNull, example |-> JNull]

\* The frames the interpreter allows before it raises RecursionError
\* (sys.getrecursionlimit(), which the program leaves at its default).
RecursionLimit == 8

\* A $ref is a sequence of tokens: "#", "/", the words "definitions" and
\* "components/schemas", and the characters of the name.
\* re.match(r"#/?(?:definitions|components/schemas)?/([^/]+)$", ref): the
\* group is what follows the last "/", not empty, and what precedes it is "#",
\* an optional "/", an optional word and the "/". <<>> stands for no match.
RefPrefixes ==
    { <<"#", "/">>, <<"#", "/", "/">>,
      <<"#", "definitions", "/">>, <<"#", "/", "definitions", "/">>,
      <<"#", "components/schemas", "/">>, <<"#", "/", "components/schemas", "/">> }

LastSlash(ref) ==
    IF \E i \in 1..Len(ref) : ref[i] = "/"
    THEN CHOOSE i \in 1..Len(ref) :
            ref[i] = "/" /\ \A j \in (i + 1)..Len(ref) : ref[j] # "/"
    ELSE 0

RefKey(ref) ==
    LET i == LastSlash(ref)
    IN  IF i > 0 /\ SubSeq(ref, 1, i) \in RefPrefixes
        THEN SubSeq(ref, i + 1, Len(ref))
        ELSE <<>>

\* key.replace('"', '')
Unquote(key) == SelectSeq(key, LAMBDA c : c # "\"")

\* definitions.get(key): the fragment under key, None (here NoSchema, which is
\* as falsy as None) when the table has no such key.
DefGet(defs, key) ==
    IF \E i \in 1..Len(defs) : defs[i].k = key
    THEN defs[CHOOSE i \in 1..Len(defs) : defs[i].k = key].v
    ELSE NoSchema

\* definitions.get(key) or definitions.get(key.replace('"', ''))
Resolve(defs, key) ==
    IF DefGet(defs, key) # NoSchema THEN DefGet(defs, key)
    ELSE DefGet(defs, Unquote(key))

\* The first exception among the outcomes rs, in order.
FirstRaised(rs) ==
    rs[CHOOSE i \in 1..Len(rs) : ~rs[i].ok /\ \A j \in 1..(i - 1) : rs[j].ok]

RECURSIVE make_sample_body_from_schema(_, _, _, _)
make_sample_body_from_schema(sch, defs, now, depth) ==
    IF depth > RecursionLimit THEN Raised("RecursionError")
    ELSE IF sch = NoSchema THEN Returned(JObj(<<>>))
    ELSE IF "$ref" \in sch.has THEN
        LET key == RefKey(sch.ref)
            sub == Resolve(defs, key)
        IN  IF key # <<>> /\ defs # <<>> /\ sub # NoSchema
            THEN make_sample_body_from_schema(sub, defs, now, depth + 1)
            ELSE Returned(JObj(<<>>))
    ELSE
        LET t == IF sch.type = "" /\ "properties" \in sch.has
                 THEN "object" ELSE sch.type
        IN  IF t = "object" THEN
                LET rs == [i \in 1..Len(sch.props) |->
                             make_sample_body_from_schema(sch.props[i].v, defs,
                                                          now, depth + 1)]
                IN  IF \E i \in 1..Len(rs) : ~rs[i].ok THEN FirstRaised(rs)
                    ELSE Returned(JObj([i \in 1..Len(rs) |->
                                    [k |-> sch.props[i].k, v |-> rs[i].val]]))
            ELSE IF t = "array" THEN
                LET items == IF "items" \in sch.has THEN sch.items[1] ELSE NoSchema
                    r == make_sample_body_from_schema(items, defs, now, depth + 1)
                IN  IF r.ok THEN Returned(JArr(<<r.val>>)) ELSE r
            ELSE IF t = "integer" \/ t = "number" THEN Returned(JInt(1))
            ELSE IF t = "boolean" THEN Returned(JBool(TRUE))
            ELSE IF sch.format = "date" THEN Returned(JStr(now.date))
            ELSE IF sch.format = "date-time" THEN Returned(JStr(now.iso))
            ELSE IF "enum" \in sch.has /\ sch.enum.t = "list" THEN
                IF sch.enum.e = <<>> THEN Raised("IndexError")
                ELSE Returned(sch.enum.e[1])
            ELSE IF Truthy(sch.example) THEN Returned(sch.example)
            ELSE Returned(JStr("sample"))

\* The fragments and tables the synthesizer is tried on.
KeyA == <<"A">>

KeyB == <<"B">>

Refs ==
    { <<"#", "/", "definitions", "/", "A">>,
      <<"#", "/", "components/schemas", "/", "B">>,
      <<"#", "/", "definitions", "/", "\"", "A", "\"">>,
      <<"#", "/", "definitions", "/", "M">>,
      <<"h", "/", "A">>,
      <<"#", "/", "definitions", "/", "x", "/", "A">> }

TypeS(t) == [NoSchema EXCEPT !.has = {"type"}, !.type = t]

EnumS(t, en) ==
    [NoSchema EXCEPT !.has = (IF t = "" THEN {} ELSE {"type"}) \cup {"enum"},
                     !.type = t, !.enum = en]

FormatS(f) == [NoSchema EXCEPT !.has = {"type", "format"}, !.type = "string", !.format = f]

ExampleS(x) == [NoSchema EXCEPT !.has = {"type", "example"}, !.type = "string", !.example = x]

RefS(r) == [NoSchema EXCEPT !.has = {"$ref"}, !.ref = r]

ObjS(t, ps) ==
    [NoSchema EXCEPT !.has = (IF t = "" THEN {} ELSE {"type"}) \cup {"properties"},
                     !.type = t, !.props = ps]

ArrS(it) == [NoSchema EXCEPT !.has = {"type", "items"}, !.type = "array", !.items = <<it>>]

LeafSchemas ==
    {NoSchema}
    \cup {TypeS(t) : t \in {"integer", "number", "boolean", "string", "object", "array"}}
    \cup {EnumS("string", JArr(<<>>)), EnumS("string", JArr(<<JStr("a"), JStr("b")>>)),
          EnumS("", JArr(<<>>)), EnumS("integer", JArr(<<>>)), EnumS("string", JStr("a")),
          FormatS("date"), FormatS("date-time"), ExampleS(JStr("ex")), ExampleS(JStr(""))}
    \cup {RefS(r) : r \in Refs}

NestedSchemas ==
    {ObjS("object", <<[k |-> "a", v |-> l]>>) : l \in LeafSchemas}
    \cup {ObjS("", <<[k |-> "a", v |-> TypeS("integer")], [k |-> "b", v |-> l]>>) :
            l \in LeafSchemas}
    \cup {ArrS(l) : l \in LeafSchemas}
    \cup {ArrS(ObjS("object", <<[k |-> "a", v |-> l]>>)) : l \in LeafSchemas}

Schemas == LeafSchemas \cup NestedSchemas

RefA == RefS(<<"#", "/", "definitions", "/", "A">>)

RefB == RefS(<<"#", "/", "components/schemas", "/", "B">>)

DefSchemas ==
    { TypeS("integer"), EnumS("string", JArr(<<>>)), RefA, RefB,
      ObjS("object", <<[k |-> "next", v |-> RefA]>>), ArrS(RefB),
      ObjS("object", <<[k |-> "n", v |-> TypeS("integer")]>>) }

\* The tables: each of A and B absent, or bound to one of DefSchemas or to {}.
Tables ==
    LET one(key) == {<<>>} \cup {<<[k |-> key, v |-> d]>> : d \in DefSchemas \cup {NoSchema}}
    IN  {a \o b : a \in one(KeyA), b \in one(KeyB)}

----------------------------------------------------------------------------
(* build_request_for_operation *)

\* Paths, URLs and file names are sequences of tokens: a token is one
\* character ("/", "{", "}", "_", ".") or a word of letters and digits.
\* Method names are sequences of letters.
GLOBAL_HEADERS == <<[k |-> "Accept", v |-> JStr("application/json")]>>

\* d[key] = val on an ordered dict: in place when the key is there, at the end
\* when it is not.
DictSet(d, key, val) ==
    IF \E i \in 1..Len(d) : d[i].k = key
    THEN [i \in 1..Len(d) |-> IF d[i].k = key THEN [k |-> key, v |-> val] ELSE d[i]]
    ELSE Append(d, [k |-> key, v |-> val])

DictHas(d, key) == \E i \in 1..Len(d) : d[i].k = key

DictGet(d, key) == d[CHOOSE i \in 1..Len(d) : d[i].k = key].v

\* repr(v) and str(v) of a value.
RECURSIVE PyRepr(_)
PyRepr(v) ==
    LET RECURSIVE join(_, _)
        join(xs, i) ==
            IF i > Len(xs) THEN ""
            ELSE xs[i] \o (IF i < Len(xs) THEN ", " ELSE "") \o join(xs, i + 1)
    IN  CASE v.t = "null" -> "None"
          [] v.t = "bool" -> IF v.b THEN "True" ELSE "False"
          [] v.t = "int"  -> ToString(v.n)
          [] v.t = "str"  -> "'" \o v.s \o "'"
          [] v.t = "list" -> "[" \o join([i \in 1..Len(v.e) |-> PyRepr(v.e[i])], 1) \o "]"
          [] OTHER        ->
               "{" \o join([i \in 1..Len(v.o) |->
                              "'" \o v.o[i].k \o "': " \o PyRepr(v.o[i].v)], 1) \o "}"

PyStr(v) == IF v.t = "str" THEN v.s ELSE PyRepr(v)

\* path.lstrip('/')
RECURSIVE LStripSlash(_)
LStripSlash(path) ==
    IF path # <<>> /\ Head(path) = "/" THEN LStripSlash(Tail(path)) ELSE path

\* url.replace('{' + name + '}', text)
RECURSIVE ReplacePlaceholder(_, _, _)
ReplacePlaceholder(u, name, text) ==
    IF u = <<>> THEN <<>>
    ELSE IF Len(u) >= 3 /\ u[1] = "{" /\ u[2] = name /\ u[3] = "}"
         THEN <<text>> \o ReplacePlaceholder(SubSeq(u, 4, Len(u)), name, text)
         ELSE <<Head(u)>> \o ReplacePlaceholder(Tail(u), name, text)

\* p.get('name') of a declaration without a name is None.
NoneKey == "<None>"

NameOf(p) == IF "name" \in p.has THEN p.name ELSE NoneKey

\* An operation object; content is the ordered requestBody.content mapping,
\* each entry's v holding the schema when the entry has one.
NoOperation ==
    [has |-> {}, parameters |-> <<>>, content |-> <<>>, operationId |-> "",
     summary |-> ""]

\* The owning document.
NoSwagger ==
    [has |-> {}, definitions |-> <<>>, schemas |-> <<>>, servers |-> <<>>,
     host |-> <<>>, basePath |-> <<>>, schemes |-> <<>>, paths |-> <<>>]

\* Lines 166-172: Swagger 2.0 definitions, overwritten by OpenAPI 3 components.schemas.
DefinitionsOf(sw) ==
    IF "components.schemas" \in sw.has THEN sw.schemas
    ELSE IF "definitions" \in sw.has THEN sw.definitions
    ELSE <<>>

\* The locals of build_request_for_operation; exc is the exception that left
\* the function ("" while none has).
BuildStart(base, path) ==
    [url |-> base \o <<"/">> \o LStripSlash(path), params |-> <<>>,
     headers |-> GLOBAL_HEADERS, body |-> JNull, exc |-> ""]

SampleOf(p, defs, now) ==
    IF "schema" \in p.has
    THEN make_sample_body_from_schema(p.schema[1], defs, now, 1)
    ELSE Returned(sample_for_type(p, now))

\* headers[name] = sample
SetHeader(hs, name, val) == DictSet(hs, name, val)

\* One turn of the loop over the parameters (lines 176-197).
BuildStep(st, p, defs, now) ==
    LET r == SampleOf(p, defs, now)
        sample == r.val
        name == NameOf(p)
        p_in == IF "in" \in p.has THEN p.in ELSE ""
    IN  IF ~r.ok THEN [st EXCEPT !.exc = r.exc]
        ELSE IF p_in = "path" THEN
            IF name = NoneKey THEN [st EXCEPT !.exc = "TypeError"]
            ELSE [st EXCEPT !.url = ReplacePlaceholder(st.url, name, PyStr(sample))]
        ELSE IF p_in = "query" THEN [st EXCEPT !.params = DictSet(st.params, name, sample)]
        ELSE IF p_in = "header" THEN
            [st EXCEPT !.headers = SetHeader(st.headers, name, sample)]
        ELSE IF p_in = "body" THEN [st EXCEPT !.body = sample]
        ELSE IF p_in = "formData" THEN
            IF st.body = JNull THEN [st EXCEPT !.body = JObj(<<[k |-> name, v |-> sample]>>)]
            ELSE IF st.body.t = "dict"
                 THEN [st EXCEPT !.body = JObj(DictSet(st.body.o, name, sample))]
                 ELSE [st EXCEPT !.exc = "TypeError"]
        ELSE st

\* content[...].get('schema'): None when the entry has no schema.
ContentSchema(entry) == IF entry.v = <<>> THEN NoSchema ELSE entry.v[1]

\* Lines 200-211: the requestBody of OpenAPI 3.
BuildRequestBody(st, op, defs, now) ==
    IF "requestBody" \notin op.has \/ op.content = <<>> THEN st
    ELSE
        LET entry == IF DictHas(op.content, "application/json")
                     THEN [k |-> "application/json",
                           v |-> DictGet(op.content, "application/json")]
                     ELSE op.content[1]
            r == make_sample_body_from_schema(ContentSchema(entry), defs, now, 1)
        IN  IF r.ok THEN [st EXCEPT !.body = r.val] ELSE [st EXCEPT !.exc = r.exc]

\* str.upper() and str.lower() on the letters method names are written in.
UpperChar(c) ==
    CASE c = "g" -> "G" [] c = "e" -> "E" [] c = "t" -> "T" [] c = "p" -> "P"
      [] c = "o" -> "O" [] c = "s" -> "S" [] c = "u" -> "U" [] c = "d" -> "D"
      [] c = "l" -> "L" [] c = "a" -> "A" [] c = "c" -> "C" [] c = "h" -> "H"
      [] c = "i" -> "I" [] c = "n" -> "N"
      [] OTHER -> c

LowerChar(c) ==
    CASE c = "G" -> "g" [] c = "E" -> "e" [] c = "T" -> "t" [] c = "P" -> "p"
      [] c = "O" -> "o" [] c = "S" -> "s" [] c = "U" -> "u" [] c = "D" -> "d"
      [] c = "L" -> "l" [] c = "A" -> "a" [] c = "C" -> "c" [] c = "H" -> "h"
      [] c = "I" -> "i" [] c = "N" -> "n"
      [] OTHER -> c

Upper(m) == [i \in 1..Len(m) |-> UpperChar(m[i])]

Lower(m) == [i \in 1..Len(m) |-> LowerChar(m[i])]

\* The returned dict (lines 213-219).
Descriptor(st, method) ==
    [url |-> st.url, method |-> Upper(method), headers |-> st.headers,
     params |-> st.params, json |-> st.body]

NoReq == [url |-> <<>>, method |-> <<>>, headers |-> <<>>, params |-> <<>>, json |-> JNull]

\* The loop run to its end, or to the first exception.
RECURSIVE BuildLoop(_, _, _, _, _)
BuildLoop(st, ps, i, defs, now) ==
    IF i > Len(ps) \/ st.exc # "" THEN st
    ELSE BuildLoop(BuildStep(st, ps[i], defs, now), ps, i + 1, defs, now)

\* build_request_for_operation as one call: [ok, req, exc].
build_request_for_operation(base, path, method, op, sw, now) ==
    LET defs == DefinitionsOf(sw)
        looped == BuildLoop(BuildStart(base, path), op.parameters, 1, defs, now)
        st == IF looped.exc = "" THEN BuildRequestBody(looped, op, defs, now) ELSE looped
    IN  IF st.exc = "" THEN [ok |-> TRUE, req |-> Descriptor(st, method), exc |-> ""]
        ELSE [ok |-> FALSE, req |-> NoReq, exc |-> st.exc]

----------------------------------------------------------------------------
(* sanitize_filename, get_source_dir_name, list_operations, fetch_swagger,
   execute_request *)

Https == <<"https", ":", "/", "/">>

SWAGGER_URLS ==
    << Https \o <<"openapi", ".", "twse", ".", "com", ".", "tw", "/", "v1", "/",
                  "swagger", ".", "json">>,
       Https \o <<"www", ".", "tpex", ".", "org", ".", "tw", "/", "openapi", "/",
                  "swagger", ".", "json">>,
       Https \o <<"openapi", ".", "taifex", ".", "com", ".", "tw", "/",
                  "swagger", ".", "json">> >>

BASE_OUTPUT_DIR == <<".", "/", "swagger">>

Get == <<"g", "e", "t">>

\* Mutation: post is let through as well.
ALLOWED_METHODS_with_post == {Get, <<"p", "o", "s", "t">>}

ALLOWED_METHODS == {Get}

\* The methods list_operations keeps (line 141).
ListedMethods ==
    {Get, <<"p", "o", "s", "t">>, <<"p", "u", "t">>, <<"p", "a", "t", "c", "h">>,
     <<"d", "e", "l", "e", "t", "e">>}

\* The characters outside [0-9A-Za-z._-] that the paths and URLs are written in;
\* of these, "." "_" "-" and words stay, and the class [0-9A-Za-z_-] of
\* get_source_dir_name lets "." go as well.
SpecialChars == {"/", "{", "}", ":", " "}

RECURSIVE SubRuns(_, _)
\* re.sub(r"[<bad>]+", "_", name): each longest run of bad tokens becomes one "_".
SubRuns(name, bad) ==
    IF name = <<>> THEN <<>>
    ELSE IF Head(name) \in bad
         THEN IF Len(name) >= 2 /\ name[2] \in bad THEN SubRuns(Tail(name), bad)
              ELSE <<"_">> \o SubRuns(Tail(name), bad)
         ELSE <<Head(name)>> \o SubRuns(Tail(name), bad)

sanitize_filename(name) == SubRuns(name, SpecialChars)

Contains(u, word) == \E i \in 1..Len(u) : u[i] = word

get_source_dir_name(swagger_url) ==
    IF Contains(swagger_url, "twse") THEN <<"twse">>
    ELSE IF Contains(swagger_url, "tpex") THEN <<"tpex">>
    ELSE IF Contains(swagger_url, "taifex") THEN <<"taifex">>
    ELSE SubRuns(swagger_url, SpecialChars \cup {"."})

\* The (path, method, operation) triples of one path entry, then of all.
RECURSIVE OpsOfPath(_, _, _)
OpsOfPath(path, methods, i) ==
    IF i > Len(methods) THEN <<>>
    ELSE (IF Lower(methods[i].method) \in ListedMethods
          THEN <<[path |-> path, method |-> Lower(methods[i].method), op |-> methods[i].op]>>
          ELSE <<>>)
         \o OpsOfPath(path, methods, i + 1)

RECURSIVE OpsOfPaths(_, _)
OpsOfPaths(paths, i) ==
    IF i > Len(paths) THEN <<>>
    ELSE OpsOfPath(paths[i].path, paths[i].methods, 1) \o OpsOfPaths(paths, i + 1)

list_operations(sw) == OpsOfPaths(sw.paths, 1)

\* Lines 261-273: the base URL of a fetched document.
BaseUrlOf(sw, swagger_url) ==
    IF "servers" \in sw.has /\ sw.servers # <<>> THEN sw.servers[1]
    ELSE IF sw.host # <<>>
         THEN <<(IF sw.schemes # <<>> THEN sw.schemes[1] ELSE "https"), ":", "/", "/">>
              \o sw.host \o sw.basePath
         ELSE LET n == Len(swagger_url)
              IN  \* re.sub(r'/swagger.json$', '', swagger_url): the "." is any character
                  IF n >= 4 /\ swagger_url[n - 3] = "/" /\ swagger_url[n - 2] = "swagger"
                            /\ swagger_url[n - 1] \in SpecialChars \cup {".", "_", "-"}
                            /\ swagger_url[n] = "json"
                  THEN SubSeq(swagger_url, 1, n - 4)
                  ELSE swagger_url

\* How one requests.get of fetch_swagger can end: with the document, or with
\* the exception raised by the get, by raise_for_status or by r.json().
FetchOutcomes == {"ok", "SSLError", "ConnectionError", "HTTPError", "JSONDecodeError"}

\* Mutation: except requests.exceptions.RequestException.
RetriesOnAnyError(outcome) == outcome # "ok"

\* except requests.exceptions.SSLError (line 153)
RetriesOn(outcome) == outcome = "SSLError"

\* What the server answers to an executed request, or the RequestException
\* the call ends with.
NoExecRes == [kind |-> "none", status_code |-> JNull, headers |-> <<>>, body |-> JNull,
              error |-> ""]

Response(code, b) ==
    [kind |-> "response", status_code |-> JInt(code),
     headers |-> <<[k |-> "Content-Type", v |-> JStr("application/json")]>>,
     body |-> b, error |-> ""]

ErrorResult(msg) == [NoExecRes EXCEPT !.kind = "error", !.error = msg]

NetOutcomes ==
    { Response(200, JArr(<<JObj(<<[k |-> "Code", v |-> JStr("2330")]>>), JObj(<<>>)>>)),
      Response(404, JStr("Not Found")),
      ErrorResult("ConnectTimeout") }

\* The verbs execute_request sends (lines 225-232).
SentMethods ==
    {Upper(Get), <<"P", "O", "S", "T">>, <<"P", "U", "T">>,
     <<"D", "E", "L", "E", "T", "E">>}

\* execute_request: what it returns when the network answers `outcome`.
execute_request(r, outcome) ==
    IF r.method \in SentMethods THEN outcome
    ELSE ErrorResult("Unsupported method")

----------------------------------------------------------------------------
(* generate_filelist_json.py *)

SOURCES == <<"taifex", "tpex", "twse">>

\* A file of a source folder: its name (tokens), whether json.load can read
\* it, the value it reads, and its size in bytes.
File(name, parseable, json, size) ==
    [name |-> name, parseable |-> parseable, json |-> json, size |-> size]

\* safe_load_json: the parsed value, None when the file cannot be read as JSON.
safe_load_json(f) == IF f.parseable THEN f.json ELSE JNull

\* d.get(key) on a JSON dict: None when the key is absent.
JGet(d, key) == IF DictHas(d.o, key) THEN DictGet(d.o, key) ELSE JNull

\* Mutation: the length of any body that has one.
extract_body_count_any_len(data) ==
    LET resp == IF data.t = "dict" THEN JGet(data, "response") ELSE JNull
        b == IF resp.t = "dict" THEN JGet(resp, "body") ELSE JNull
    IN  IF b.t = "list" THEN Len(b.e)
        ELSE IF b.t = "dict" THEN Len(b.o)
        ELSE IF b.t = "str" THEN Len(b.s)
        ELSE 0

extract_body_count(data) ==
    IF data.t = "dict" /\ JGet(data, "response").t = "dict"
                       /\ JGet(JGet(data, "response"), "body").t = "list"
    THEN Len(JGet(JGet(data, "response"), "body").e)
    ELSE 0

\* line 67
CountOf(f) ==
    IF safe_load_json(f) # JNull THEN JInt(extract_body_count(safe_load_json(f)))
    ELSE JNull

\* The tokens of a name put together.
RECURSIVE Join(_)
Join(name) == IF name = <<>> THEN "" ELSE Head(name) \o Join(Tail(name))

ManifestName == <<"manifest", ".", "json">>

\* str.lower() of a name's last word.
LowerWord(w) == IF w = "JSON" THEN "json" ELSE w

\* name.lower().endswith('.json')
EndsWithJson(name) ==
    Len(name) >= 2 /\ name[Len(name) - 1] = "." /\ LowerWord(name[Len(name)]) = "json"

\* The entries get_summary_map walks (lines 20-24).
ManifestEntries(mani) ==
    IF mani.t = "dict" /\ JGet(mani, "files").t = "list" THEN JGet(mani, "files").e
    ELSE IF mani.t = "list" THEN mani.e
    ELSE <<>>

RECURSIVE SummaryMapOf(_, _, _)
SummaryMapOf(es, i, acc) ==
    IF i > Len(es) THEN acc
    ELSE LET e == es[i]
             fname == IF Truthy(JGet(e, "file")) THEN JGet(e, "file") ELSE JGet(e, "path")
             summ == JGet(e, "summary")
         IN  SummaryMapOf(es, i + 1,
                 IF e.t = "dict" /\ Truthy(fname) /\ Truthy(summ)
                 THEN DictSet(acc, fname, summ) ELSE acc)

\* get_summary_map of a folder: file name -> summary.
get_summary_map(dir) ==
    LET at == {i \in 1..Len(dir.files) : dir.files[i].name = ManifestName}
        mani == IF at = {} THEN JNull ELSE safe_load_json(dir.files[CHOOSE i \in at : TRUE])
    IN  SummaryMapOf(ManifestEntries(mani), 1, <<>>)

\* round(size_bytes / 1024.0, 1), in tenths of a kilobyte.
SizeTenthsKB(size_bytes) == (size_bytes * 10 + 512) \div 1024

\* Lines 58-78: the entry of one file.
EntryOf(src, dir, f) ==
    LET smap == get_summary_map(dir)
        key == JStr(Join(f.name))
        summ == IF DictHas(smap, key) THEN DictGet(smap, key) ELSE JNull
    IN  [src |-> src, file |-> Join(f.name), summary |-> summ,
         display |-> IF Truthy(summ) THEN PyStr(summ) \o " (" \o Join(f.name) \o ")"
                     ELSE Join(f.name),
         count |-> CountOf(f), sizeKB |-> SizeTenthsKB(f.size)]

NoFilelist == [generatedAt |-> "", files |-> <<>>]

----------------------------------------------------------------------------
(* The specifications of the two samplers *)

\* The locals of build_request_for_operation while it is not running on its own.
BuildIdle ==
    /\ operation = NoOperation
    /\ url = <<>> /\ params = <<>> /\ headers = <<>> /\ body = JNull
    /\ pIdx = 0
    /\ buildPc = "idle"
    /\ buildExc = ""

\* The variables of generate_filelist_json while it is not running.
ListIdle ==
    /\ tree = <<>> /\ lsrc = 0 /\ fIdx = 0 /\ entries = <<>>
    /\ filelist = NoFilelist /\ listPc = "idle"

\* The variables of __main__ while a function is run on its own.
MainIdle ==
    /\ pc = "idle" /\ srcIdx = 0 /\ base_url = <<>> /\ ops = <<>> /\ opIdx = 0
    /\ idx = 0 /\ manifest = <<>> /\ exec_res = NoExecRes /\ files = <<>>
    /\ manifests = <<>> /\ summary = <<>> /\ summaryFile = <<>>
    /\ fetchLog = <<>> /\ executed = <<>>

\* The variables of sample_for_type while another function runs.
SamplerIdle ==
    /\ param = NoParam
    /\ sampled = NoResult
    /\ samplerPc = "idle"

\* The variables of make_sample_body_from_schema while another function runs.
SchemaIdle ==
    /\ schema = NoSchema
    /\ definitions = <<>>
    /\ result = NoResult
    /\ schemaPc = "idle"

SamplerInit ==
    /\ utcnow \in Clock
    /\ ListIdle
    /\ MainIdle
    /\ SchemaIdle
    /\ BuildIdle
    /\ swagger = NoSwagger
    /\ req = NoReq
    /\ param \in {p \in FlatParams : WellFormed(p)}
    /\ sampled = NoResult
    /\ samplerPc = "call"

CallSampleForType ==
    /\ samplerPc = "call"
    /\ sampled' = Returned(sample_for_type(param, utcnow))
    /\ samplerPc' = "done"
    /\ UNCHANGED <<utcnow, param, schemaVars, buildVars, swagger, req, mainVars, listVars>>

SamplerNext == CallSampleForType

SpecSampler == SamplerInit /\ [][SamplerNext]_vars

\* C7: whenever the declaration's enum is a non-empty list, sample_for_type
\* returned exactly the first element of that list, whatever the declared
\* type, format and pattern.
C7_EnumFirst ==
    (samplerPc = "done" /\ "enum" \in param.has /\ param.enum.t = "list"
        /\ param.enum.e # <<>>)
    => sampled = Returned(param.enum.e[1])

\* C7's case: a call returned for an integer-typed declaration with a date
\* format, a digit pattern and a two-element enum.
C7_Witness ==
    /\ samplerPc = "done"
    /\ param.type = "integer" /\ param.format = "date"
    /\ HasBackslashD(param.pattern)
    /\ param.enum = JArr(<<JInt(7), JStr("a")>>)
    /\ sampled = Returned(JInt(7))

SchemaInit ==
    /\ utcnow \in Clock
    /\ ListIdle
    /\ MainIdle
    /\ SamplerIdle
    /\ BuildIdle
    /\ swagger = NoSwagger
    /\ req = NoReq
    /\ schema \in Schemas
    /\ definitions \in Tables
    /\ result = NoResult
    /\ schemaPc = "call"

CallMakeSample ==
    /\ schemaPc = "call"
    /\ result' = make_sample_body_from_schema(schema, definitions, utcnow, 1)
    /\ schemaPc' = "done"
    /\ UNCHANGED <<utcnow, schema, definitions, samplerVars, buildVars, swagger, req,
                   mainVars, listVars>>

SchemaNext == CallMakeSample

SpecSchema == SchemaInit /\ [][SchemaNext]_vars

----------------------------------------------------------------------------
(* build_request_for_operation, one turn of its loop at a time *)

\* The longest parameter list tried.
MaxParams == 3

Decl(where, name, more) ==
    [ [NoParam EXCEPT !.has = {"in", "name"}, !.in = where, !.name = name]
        EXCEPT !.has = @ \cup more.has, !.type = more.type, !.enum = more.enum,
               !.pattern = more.pattern, !.schema = more.schema ]

Flat(t) == [NoParam EXCEPT !.has = IF t = "" THEN {} ELSE {"type"}, !.type = t]

WithSchema(sch) == [NoParam EXCEPT !.has = {"schema"}, !.schema = <<sch>>]

BuildParamDecls ==
    { Decl("header", "Accept", Flat("string")),
      Decl("header", "X", [Flat("") EXCEPT !.has = {"enum"}, !.enum = JArr(<<JStr("k")>>)]),
      Decl("body", "b", Flat("integer")),
      Decl("body", "b", WithSchema(ArrS(TypeS("integer")))),
      Decl("body", "b", WithSchema(ObjS("object", <<[k |-> "x", v |-> RefA]>>))),
      Decl("body", "b", WithSchema(EnumS("string", JArr(<<>>)))),
      Decl("formData", "f", Flat("string")),
      Decl("formData", "g", Flat("integer")),
      Decl("formData", "f", Flat("boolean")),
      Decl("query", "q", [Flat("") EXCEPT !.has = {"pattern"},
                                          !.pattern = <<"^", "\\", "d", "+">>]),
      Decl("path", "c", Flat("integer")),
      [NoParam EXCEPT !.has = {"in", "type"}, !.in = "path", !.type = "boolean"] }

ParamLists == UNION {[1..n -> BuildParamDecls] : n \in 0..MaxParams}

Contents ==
    { <<[k |-> "application/json", v |-> <<TypeS("boolean")>>]>>,
      <<[k |-> "text/plain", v |-> <<>>],
        [k |-> "application/json", v |-> <<ArrS(RefA)>>]>>,
      <<[k |-> "text/plain", v |-> <<TypeS("string")>>]>>,
      <<>> }

BuildOperations ==
    {[NoOperation EXCEPT !.has = {"parameters"}, !.parameters = ps] : ps \in ParamLists}
    \cup {[NoOperation EXCEPT !.has = {"parameters", "requestBody"}, !.parameters = ps,
                              !.content = c] :
            ps \in {q \in ParamLists : Len(q) <= 1}, c \in Contents}

TableA(sch) == <<[k |-> KeyA, v |-> sch]>>

BuildDocs ==
    { [NoSwagger EXCEPT !.has = {"definitions"}, !.definitions = TableA(TypeS("integer"))],
      [NoSwagger EXCEPT !.has = {"definitions", "components.schemas"},
                        !.definitions = TableA(TypeS("integer")),
                        !.schemas = TableA(TypeS("boolean"))],
      NoSwagger }

BuildBase == Https \o <<"h", "/", "v1">>

BuildPath == <<"/", "stock", "/", "{", "c", "}">>

BuildMethod == <<"g", "e", "t">>

BuildLocals == [url |-> url, params |-> params, headers |-> headers, body |-> body,
                exc |-> buildExc]

BuildInit ==
    /\ utcnow \in Clock
    /\ ListIdle
    /\ MainIdle
    /\ SamplerIdle
    /\ SchemaIdle
    /\ operation \in BuildOperations
    /\ swagger \in BuildDocs
    /\ url = BuildStart(BuildBase, BuildPath).url
    /\ params = <<>>
    /\ headers = GLOBAL_HEADERS
    /\ body = JNull
    /\ pIdx = 1
    /\ buildPc = "params"
    /\ buildExc = ""
    /\ req = NoReq

SetLocals(st) ==
    /\ url' = st.url
    /\ params' = st.params
    /\ headers' = st.headers
    /\ body' = st.body
    /\ buildExc' = st.exc

\* One parameter of the loop at lines 176-197.
StepParameter ==
    /\ buildPc = "params"
    /\ pIdx <= Len(operation.parameters)
    /\ LET st == BuildStep(BuildLocals, operation.parameters[pIdx],
                           DefinitionsOf(swagger), utcnow)
       IN  /\ SetLocals(st)
           /\ buildPc' = IF st.exc = "" THEN "params" ELSE "raised"
    /\ pIdx' = pIdx + 1
    /\ UNCHANGED <<utcnow, samplerVars, schemaVars, operation, swagger, req, mainVars, listVars>>

\* Lines 199-211, once the loop is over.
StepRequestBody ==
    /\ buildPc = "params"
    /\ pIdx > Len(operation.parameters)
    /\ LET st == BuildRequestBody(BuildLocals, operation, DefinitionsOf(swagger), utcnow)
       IN  /\ SetLocals(st)
           /\ buildPc' = IF st.exc = "" THEN "return" ELSE "raised"
    /\ UNCHANGED <<utcnow, samplerVars, schemaVars, operation, swagger, pIdx, req,
                   mainVars, listVars>>

\* Lines 213-219.
ReturnDescriptor ==
    /\ buildPc = "return"
    /\ req' = Descriptor(BuildLocals, BuildMethod)
    /\ buildPc' = "done"
    /\ UNCHANGED <<utcnow, samplerVars, schemaVars, operation, swagger, url, params,
                   headers, body, pIdx, buildExc, mainVars, listVars>>

BuildNext == StepParameter \/ StepRequestBody \/ ReturnDescriptor

SpecBuild == BuildInit /\ [][BuildNext]_vars

\* The steps and the single call agree on how the function ends.
StepsAgreeWithCall ==
    LET r == build_request_for_operation(BuildBase, BuildPath, BuildMethod, operation,
                                         swagger, utcnow)
    IN  /\ buildPc = "done" => (r.ok /\ r.req = req)
        /\ buildPc = "raised" => (~r.ok /\ r.exc = buildExc)

\* The formData declarations of a parameter list.
FormDataOf(ps) == {i \in 1..Len(ps) : ps[i].in = "formData"}

\* C8: the headers of every returned descriptor hold Accept = application/json,
\* a header parameter named Accept included, and every other header parameter
\* is there with its sample.
C8_AcceptAlwaysJson ==
    buildPc = "done"
    => /\ DictHas(req.headers, "Accept")
       /\ DictGet(req.headers, "Accept") = JStr("application/json")
       /\ \A i \in 1..Len(operation.parameters) :
            LET p == operation.parameters[i]
            IN  (p.in = "header" /\ p.name # "Accept") => DictHas(req.headers, p.name)

\* A declaration with a name whose sample the samplers can compute.
Sampleable(p) ==
    "name" \in p.has /\ SampleOf(p, DefinitionsOf(swagger), utcnow).ok

\* C9: for an operation without requestBody (its declarations named, their
\* samples computable) the builder returns a descriptor, and its body is a
\* mapping holding name -> sample for every formData parameter, whatever
\* precedes that parameter in the list, a body parameter with a scalar, a
\* sequence or a mapping for sample included.
C9_FormDataMerged ==
    ("requestBody" \notin operation.has /\ buildPc \in {"done", "raised"}
        /\ \A i \in 1..Len(operation.parameters) : Sampleable(operation.parameters[i]))
    => /\ buildPc = "done"
       /\ \A i \in FormDataOf(operation.parameters) :
            LET p == operation.parameters[i]
            IN  /\ req.json.t = "dict"
                /\ DictHas(req.json.o, p.name)
                /\ DictGet(req.json.o, p.name) = SampleOf(p, DefinitionsOf(swagger), utcnow).val

----------------------------------------------------------------------------
(* __main__ of swagger_API.py. Writing to the output tree is taken to succeed. *)

OpPlain ==
    [NoOperation EXCEPT !.has = {"operationId", "summary"}, !.operationId = "getInfo",
                        !.summary = "Info"]

OpHeader ==
    [NoOperation EXCEPT !.has = {"parameters"},
                        !.parameters = <<Decl("header", "Accept", Flat("string"))>>]

OpBadEnum ==
    [NoOperation EXCEPT !.has = {"parameters"},
        !.parameters = <<Decl("query", "q", WithSchema(EnumS("string", JArr(<<>>))))>>]

OpPath ==
    [NoOperation EXCEPT !.has = {"parameters", "summary"}, !.summary = "Quote",
                        !.parameters = <<Decl("path", "c", Flat("integer"))>>]

PathEntry(path, methods) == [path |-> path, methods |-> methods]

On(method, op) == [method |-> method, op |-> op]

Doc(paths) == [NoSwagger EXCEPT !.has = {"paths"}, !.paths = paths]

Docs ==
    { [Doc(<<PathEntry(<<"/", "info">>, <<On(Get, OpPlain)>>)>>)
          EXCEPT !.has = {"paths", "host", "basePath", "schemes"}, !.host = <<"h">>,
                 !.basePath = <<"/", "v1">>, !.schemes = <<"http">>],
      Doc(<<PathEntry(<<"/", "a", "/", "b">>,
                      <<On(Get, OpPlain), On(<<"p", "o", "s", "t">>, OpPlain)>>),
            PathEntry(<<"/", "a", "_", "b">>, <<On(Get, OpHeader)>>)>>),
      Doc(<<PathEntry(<<"/", "info">>,
                      <<On(<<"P", "O", "S", "T">>, OpPlain), On(<<"G", "E", "T">>, OpPlain),
                        On(<<"d", "e", "l", "e", "t", "e">>, OpPlain)>>)>>),
      Doc(<<PathEntry(<<"/", "info">>, <<On(Get, OpBadEnum)>>),
            PathEntry(<<"/", "a", "/", "b">>, <<On(Get, OpPlain)>>)>>),
      NoSwagger,
      [Doc(<<PathEntry(<<"/", "a", "/", "b">>,
                       <<On(<<"p", "a", "t", "c", "h">>, OpPlain),
                         On(<<"p", "u", "t">>, OpHeader),
                         On(<<"o", "p", "t", "i", "o", "n", "s">>, OpPlain)>>)>>)
          EXCEPT !.has = {"paths", "servers"}, !.servers = << Https \o <<"h", "/", "v3">> >>],
      Doc(<<PathEntry(<<"/", "stock", "/", "{", "c", "}">>, <<On(Get, OpPath)>>)>>) }

JsonSuffix == <<".", "json">>

MainInit ==
    /\ utcnow \in Clock
    /\ ListIdle
    /\ SamplerIdle
    /\ SchemaIdle
    /\ BuildIdle
    /\ swagger = NoSwagger
    /\ req = NoReq
    /\ pc = "fetch"
    /\ srcIdx = 1
    /\ base_url = <<>>
    /\ ops = <<>>
    /\ opIdx = 0
    /\ idx = 0
    /\ manifest = <<>>
    /\ exec_res = NoExecRes
    /\ files = <<>>
    /\ manifests = <<>>
    /\ summary = <<>>
    /\ summaryFile = <<>>
    /\ fetchLog = [i \in 1..Len(SWAGGER_URLS) |-> <<>>]
    /\ executed = <<>>

source_dir == BASE_OUTPUT_DIR \o <<"/">> \o get_source_dir_name(SWAGGER_URLS[srcIdx])

\* `continue`, or the end of the loop over SWAGGER_URLS.
NextSource ==
    /\ srcIdx' = IF srcIdx < Len(SWAGGER_URLS) THEN srcIdx + 1 ELSE srcIdx
    /\ pc' = IF srcIdx < Len(SWAGGER_URLS) THEN "fetch" ELSE "summary"

\* Lines 254-257: the fetch failed.
FetchFailed(outcome) ==
    /\ summary' = DictSet(summary, SWAGGER_URLS[srcIdx],
                          [kind |-> "error", output_dir |-> <<>>, get_count |-> 0,
                           error |-> outcome])
    /\ NextSource
    /\ UNCHANGED swagger

LogGet(verify, outcome) ==
    fetchLog' = [fetchLog EXCEPT ![srcIdx] =
                    Append(@, [verify |-> verify, outcome |-> outcome])]

\* fetch_swagger, its first get (lines 150-152).
FetchFirst ==
    /\ pc = "fetch"
    /\ \E outcome \in FetchOutcomes :
        /\ LogGet(TRUE, outcome)
        /\ IF outcome = "ok"
           THEN /\ \E doc \in Docs : swagger' = doc
                /\ pc' = "prepare"
                /\ UNCHANGED <<summary, srcIdx>>
           ELSE IF RetriesOn(outcome)
           THEN /\ pc' = "retry"
                /\ UNCHANGED <<summary, srcIdx, swagger>>
           ELSE FetchFailed(outcome)
    /\ UNCHANGED <<utcnow, samplerVars, schemaVars, buildVars, listVars, req, base_url, ops, opIdx,
                   idx, manifest, exec_res, files, manifests, summaryFile, executed>>

\* fetch_swagger, the get without verification (lines 155-157).
FetchRetry ==
    /\ pc = "retry"
    /\ \E outcome \in FetchOutcomes :
        /\ LogGet(FALSE, outcome)
        /\ IF outcome = "ok"
           THEN /\ \E doc \in Docs : swagger' = doc
                /\ pc' = "prepare"
                /\ UNCHANGED <<summary, srcIdx>>
           ELSE FetchFailed(outcome)
    /\ UNCHANGED <<utcnow, samplerVars, schemaVars, buildVars, listVars, req, base_url, ops, opIdx,
                   idx, manifest, exec_res, files, manifests, summaryFile, executed>>

\* os.makedirs(source_dir, exist_ok=True)
MakeDirs(fs, dir) == IF DictHas(fs, dir) THEN fs ELSE DictSet(fs, dir, <<>>)

\* Lines 259-283.
Prepare ==
    /\ pc = "prepare"
    /\ base_url' = BaseUrlOf(swagger, SWAGGER_URLS[srcIdx])
    /\ files' = MakeDirs(files, source_dir)
    /\ ops' = list_operations(swagger)
    /\ manifest' = <<>>
    /\ idx' = 0
    /\ opIdx' = 1
    /\ pc' = "loop"
    /\ UNCHANGED <<utcnow, samplerVars, schemaVars, buildVars, listVars, swagger, req, srcIdx,
                   exec_res, manifests, summary, summaryFile, fetchLog, executed>>

\* Lines 285-286.
SkipOperation ==
    /\ pc = "loop"
    /\ opIdx <= Len(ops)
    /\ Lower(ops[opIdx].method) \notin ALLOWED_METHODS
    /\ opIdx' = opIdx + 1
    /\ UNCHANGED <<utcnow, samplerVars, schemaVars, buildVars, listVars, swagger, req, pc, srcIdx,
                   base_url, ops, idx, manifest, exec_res, files, manifests, summary,
                   summaryFile, fetchLog, executed>>

\* Lines 287-289; an exception of the builder is caught nowhere.
BuildOperation ==
    /\ pc = "loop"
    /\ opIdx <= Len(ops)
    /\ Lower(ops[opIdx].method) \in ALLOWED_METHODS
    /\ idx' = idx + 1
    /\ LET r == build_request_for_operation(base_url, ops[opIdx].path, ops[opIdx].method,
                                            ops[opIdx].op, swagger, utcnow)
       IN  /\ req' = r.req
           /\ pc' = IF r.ok THEN "execute" ELSE "crashed"
    /\ UNCHANGED <<utcnow, samplerVars, schemaVars, buildVars, listVars, swagger, srcIdx, base_url,
                   ops, opIdx, manifest, exec_res, files, manifests, summary, summaryFile,
                   fetchLog, executed>>

\* Line 290.
ExecuteOperation ==
    /\ pc = "execute"
    /\ \E outcome \in NetOutcomes :
        /\ exec_res' = execute_request(req, outcome)
        /\ executed' = Append(executed,
                [src |-> srcIdx, path |-> ops[opIdx].path, method |-> ops[opIdx].method,
                 req |-> req, res |-> execute_request(req, outcome)])
    /\ pc' = "persist"
    /\ UNCHANGED <<utcnow, samplerVars, schemaVars, buildVars, listVars, swagger, req, srcIdx,
                   base_url, ops, opIdx, idx, manifest, files, manifests, summary,
                   summaryFile, fetchLog>>

OrNone(op, key, val) == IF key \in op.has THEN JStr(val) ELSE JNull

\* Lines 291-311.
PersistOperation ==
    /\ pc = "persist"
    /\ LET o == ops[opIdx]
           out == [path |-> o.path, method |-> Upper(o.method),
                   operationId |-> OrNone(o.op, "operationId", o.op.operationId),
                   summary |-> OrNone(o.op, "summary", o.op.summary),
                   request |-> req, response |-> exec_res]
           filename == Upper(o.method) \o <<"_">> \o sanitize_filename(o.path) \o JsonSuffix
       IN  /\ files' = DictSet(files, source_dir,
                               DictSet(DictGet(files, source_dir), filename, out))
           /\ manifest' = Append(manifest,
                 [file |-> filename, path |-> o.path, method |-> Upper(o.method),
                  operationId |-> out.operationId, summary |-> out.summary,
                  status_code |-> exec_res.status_code])
    /\ opIdx' = opIdx + 1
    /\ pc' = "loop"
    /\ UNCHANGED <<utcnow, samplerVars, schemaVars, buildVars, listVars, swagger, req, srcIdx,
                   base_url, ops, idx, exec_res, manifests, summary, summaryFile, fetchLog,
                   executed>>

\* Lines 315-320.
WriteManifest ==
    /\ pc = "loop"
    /\ opIdx > Len(ops)
    /\ manifests' = DictSet(manifests, source_dir, manifest)
    /\ summary' = DictSet(summary, SWAGGER_URLS[srcIdx],
                          [kind |-> "ok", output_dir |-> source_dir,
                           get_count |-> Len(manifest), error |-> ""])
    /\ NextSource
    /\ UNCHANGED <<utcnow, samplerVars, schemaVars, buildVars, listVars, swagger, req, base_url, ops,
                   opIdx, idx, manifest, exec_res, files, summaryFile, fetchLog, executed>>

\* Lines 322-326.
WriteSummary ==
    /\ pc = "summary"
    /\ summaryFile' = summary
    /\ pc' = "done"
    /\ UNCHANGED <<utcnow, samplerVars, schemaVars, buildVars, listVars, swagger, req, srcIdx,
                   base_url, ops, opIdx, idx, manifest, exec_res, files, manifests, summary,
                   fetchLog, executed>>

Next ==
    \/ FetchFirst
    \/ FetchRetry
    \/ Prepare
    \/ SkipOperation
    \/ BuildOperation
    \/ ExecuteOperation
    \/ PersistOperation
    \/ WriteManifest
    \/ WriteSummary

Init == MainInit

Spec == Init /\ [][Next]_vars

----------------------------------------------------------------------------
(* main of generate_filelist_json.py *)

\* The longest response body tried.
MaxBodyLen == 5

Record(resp) == JObj(<<[k |-> "path", v |-> JStr("/info")], [k |-> "response", v |-> resp]>>)

WithBody(b) == JObj(<<[k |-> "status_code", v |-> JInt(200)], [k |-> "body", v |-> b]>>)

Bodies ==
    {JArr([i \in 1..n |-> JInt(i)]) : n \in 0..MaxBodyLen}
    \cup { JObj(<<[k |-> "ok", v |-> JBool(TRUE)]>>), JObj(<<>>), JStr("Not Found"),
           JInt(3), JBool(TRUE), JNull }

FileJsons ==
    {Record(WithBody(b)) : b \in Bodies}
    \cup { Record(JObj(<<[k |-> "error", v |-> JStr("ConnectTimeout")]>>)),
           Record(JStr("text")), Record(JArr(<<JInt(1), JInt(2)>>)), Record(JNull),
           JObj(<<[k |-> "path", v |-> JStr("/info")]>>), JObj(<<>>),
           JArr(<<JInt(1), JInt(2), JInt(3)>>), JStr("text"), JInt(7), JNull }

DataName == <<"GET_info", ".", "json">>

DataFiles ==
    {File(DataName, TRUE, j, sz) : j \in FileJsons, sz \in {2, 1536}}
    \cup {File(DataName, FALSE, JNull, 0), File(<<"DATA", ".", "JSON">>, FALSE, JNull, 9),
          File(<<"notes", ".", "txt">>, TRUE, WithBody(JArr(<<JInt(1)>>)), 40)}

ManiEntry == JObj(<<[k |-> "file", v |-> JStr(Join(DataName))],
                    [k |-> "summary", v |-> JStr("Info")]>>)

ManifestFiles ==
    { File(ManifestName, TRUE, JArr(<<ManiEntry>>), 120),
      File(ManifestName, TRUE, JObj(<<[k |-> "files", v |-> JArr(<<JStr("x"), ManiEntry>>)]>>), 140),
      File(ManifestName, FALSE, JNull, 3) }

NoDir == [exists |-> FALSE, files |-> <<>>]

Dir(fs) == [exists |-> TRUE, files |-> fs]

\* The folders a source can have: none, or one data file with or without a
\* manifest beside it (os.listdir gives them in either order).
Dirs ==
    {NoDir}
    \cup {Dir(<<f>>) : f \in DataFiles}
    \cup {Dir(<<m, f>>) : m \in ManifestFiles, f \in DataFiles}
    \cup {Dir(<<f, m>>) : m \in ManifestFiles, f \in {File(DataName, TRUE, j, 2) : j \in FileJsons}}

PlainDirs ==
    {NoDir, Dir(<<File(DataName, TRUE, Record(WithBody(JArr(<<JInt(1)>>))), 2048)>>)}

ListInit ==
    /\ utcnow \in Clock
    /\ SamplerIdle
    /\ SchemaIdle
    /\ BuildIdle
    /\ MainIdle
    /\ swagger = NoSwagger
    /\ req = NoReq
    /\ tree \in {<<a, b, c>> : a \in Dirs, b \in PlainDirs, c \in {NoDir}}
    /\ lsrc = 1
    /\ fIdx = 1
    /\ entries = <<>>
    /\ filelist = NoFilelist
    /\ listPc = "scan"

\* Lines 50-51, and the end of a folder's listing.
NextFolder ==
    /\ listPc = "scan"
    /\ lsrc <= Len(SOURCES)
    /\ ~tree[lsrc].exists \/ fIdx > Len(tree[lsrc].files)
    /\ lsrc' = lsrc + 1
    /\ fIdx' = 1
    /\ UNCHANGED <<utcnow, samplerVars, schemaVars, buildVars, swagger, req, mainVars,
                   tree, entries, filelist, listPc>>

\* Lines 54-57.
SkipFile ==
    /\ listPc = "scan"
    /\ lsrc <= Len(SOURCES) /\ tree[lsrc].exists /\ fIdx <= Len(tree[lsrc].files)
    /\ LET name == tree[lsrc].files[fIdx].name
       IN  ~EndsWithJson(name) \/ name = ManifestName
    /\ fIdx' = fIdx + 1
    /\ UNCHANGED <<utcnow, samplerVars, schemaVars, buildVars, swagger, req, mainVars,
                   tree, lsrc, entries, filelist, listPc>>

\* Lines 58-78.
ListFile ==
    /\ listPc = "scan"
    /\ lsrc <= Len(SOURCES) /\ tree[lsrc].exists /\ fIdx <= Len(tree[lsrc].files)
    /\ LET name == tree[lsrc].files[fIdx].name
       IN  EndsWithJson(name) /\ name # ManifestName
    /\ entries' = Append(entries, EntryOf(SOURCES[lsrc], tree[lsrc], tree[lsrc].files[fIdx]))
    /\ fIdx' = fIdx + 1
    /\ UNCHANGED <<utcnow, samplerVars, schemaVars, buildVars, swagger, req, mainVars,
                   tree, lsrc, filelist, listPc>>

\* Lines 79-86.
WriteFilelist ==
    /\ listPc = "scan"
    /\ lsrc > Len(SOURCES)
    /\ filelist' = [generatedAt |-> utcnow.iso, files |-> entries]
    /\ listPc' = "done"
    /\ UNCHANGED <<utcnow, samplerVars, schemaVars, buildVars, swagger, req, mainVars,
                   tree, lsrc, fIdx, entries>>

ListNext == NextFolder \/ SkipFile \/ ListFile \/ WriteFilelist

SpecListing == ListInit /\ [][ListNext]_vars

\* The file a listing entry was made from.
FileOf(e) ==
    LET d == tree[CHOOSE i \in 1..Len(SOURCES) : SOURCES[i] = e.src]
    IN  d.files[CHOOSE i \in 1..Len(d.files) : Join(d.files[i].name) = e.file]

\* response.body of a persisted file, None when there is none.
BodyOf(f) ==
    IF f.parseable /\ f.json.t = "dict" /\ JGet(f.json, "response").t = "dict"
    THEN JGet(JGet(f.json, "response"), "body")
    ELSE JNull

FiveElementBodyCounted ==
    \A i \in 1..Len(entries) :
        BodyOf(FileOf(entries[i])) = JArr([j \in 1..5 |-> JInt(j)])
        => entries[i].count = JInt(5)

----------------------------------------------------------------------------
(* Claims about __main__ *)

Post == <<"p", "o", "s", "t">>

\* C1: every request passed to execute_request is a GET request and belongs
\* to an operation the document lists under get; no operation listed under
\* post, put, patch or delete is ever executed.
C1_OnlyGetExecuted ==
    \A i \in 1..Len(executed) :
        /\ executed[i].req.method = Upper(Get)
        /\ Lower(executed[i].method) = Get
        /\ executed[i].method \notin (ListedMethods \ {Get})

\* C1's case: the run has gone past an operation listed under post, in a
\* document of which it executed a get operation.
C1_Witness ==
    /\ \E j \in 1..Len(ops) : ops[j].method = Post /\ j < opIdx
    /\ \E i \in 1..Len(executed) : executed[i].src = srcIdx
    /\ pc = "done"

\* The fetch of source i is over.
Fetched(i) == i < srcIdx \/ (i = srcIdx /\ pc \notin {"fetch", "retry"})

\* C3: fetch_swagger issues at most two GETs per document, the first one with
\* certificate verification; the second one goes without verification, and is
\* issued exactly when the first ended in a TLS error. Every other failure of
\* the first GET and every failure of the second one ends the fetch as a
\* failure, which the caller records for the source.
C3_FetchAttempts ==
    \A i \in 1..Len(SWAGGER_URLS) :
        LET log == fetchLog[i]
        IN  /\ Len(log) <= 2
            /\ Len(log) >= 1 => log[1].verify
            /\ Len(log) = 2 => (~log[2].verify /\ log[1].outcome = "SSLError")
            /\ Fetched(i) =>
                /\ Len(log) >= 1
                /\ log[1].outcome = "SSLError" => Len(log) = 2
                /\ log[Len(log)].outcome # "ok" =>
                    /\ DictHas(summary, SWAGGER_URLS[i])
                    /\ DictGet(summary, SWAGGER_URLS[i]).kind = "error"
                    /\ DictGet(summary, SWAGGER_URLS[i]).error = log[Len(log)].outcome
                /\ (log[Len(log)].outcome = "ok" /\ DictHas(summary, SWAGGER_URLS[i]))
                   => DictGet(summary, SWAGGER_URLS[i]).kind = "ok"

\* C3's case: a run in which one fetch failed at once on a refused connection,
\* one fell back after a TLS error and failed again on a TLS error, and one
\* fell back and got the document.
C3_Witness ==
    /\ pc = "done"
    /\ fetchLog[1] = <<[verify |-> TRUE, outcome |-> "ConnectionError"]>>
    /\ fetchLog[2] = <<[verify |-> TRUE, outcome |-> "SSLError"],
                       [verify |-> FALSE, outcome |-> "SSLError"]>>
    /\ fetchLog[3] = <<[verify |-> TRUE, outcome |-> "SSLError"],
                       [verify |-> FALSE, outcome |-> "ok"]>>

\* C2: the run never aborts on what fetching, building and executing do, and
\* ends with a summary file of one entry per configured source.
C2_NoAbort ==
    /\ pc # "crashed"
    /\ pc = "done" =>
        \A i \in 1..Len(SWAGGER_URLS) : DictHas(summaryFile, SWAGGER_URLS[i])

\* The requests executed for source i, in order.
ExecutedOf(i) == SelectSeq(executed, LAMBDA x : x.src = i)

SourceDir(i) == BASE_OUTPUT_DIR \o <<"/">> \o get_source_dir_name(SWAGGER_URLS[i])

\* C10: once the manifest of a source is written it has one entry per executed
\* operation, the entries name pairwise distinct files, and the file an entry
\* names holds the record of that entry's operation.
C10_OneFilePerOperation ==
    \A i \in 1..Len(SWAGGER_URLS) :
        DictHas(manifests, SourceDir(i)) =>
            LET m == DictGet(manifests, SourceDir(i))
                x == ExecutedOf(i)
                dir == DictGet(files, SourceDir(i))
            IN  /\ Len(m) = Len(x)
                /\ \A j, k \in 1..Len(m) : j # k => m[j].file # m[k].file
                /\ \A j \in 1..Len(m) :
                    /\ DictHas(dir, m[j].file)
                    /\ DictGet(dir, m[j].file).path = x[j].path
                    /\ DictGet(dir, m[j].file).method = Upper(x[j].method)
                    /\ DictGet(dir, m[j].file).request = x[j].req
                    /\ DictGet(dir, m[j].file).response = x[j].res

----------------------------------------------------------------------------
(* Claims about make_sample_body_from_schema *)

\* The $ref values of a fragment, its properties and its items.
RECURSIVE RefsIn(_)
RefsIn(sch) ==
    (IF "$ref" \in sch.has THEN {sch.ref} ELSE {})
    \cup UNION {RefsIn(sch.props[i].v) : i \in 1..Len(sch.props)}
    \cup UNION {RefsIn(sch.items[i]) : i \in 1..Len(sch.items)}

\* The keys of the table that the fragment under key k refers to.
RefEdges(defs, k) ==
    {defs[i].k : i \in {j \in 1..Len(defs) :
        \E r \in RefsIn(DefGet(defs, k)) :
            RefKey(r) # <<>> /\ Resolve(defs, RefKey(r)) = defs[j].v
                             /\ defs[j].k \in {RefKey(r), Unquote(RefKey(r))}}}

RECURSIVE ReachFrom(_, _, _)
ReachFrom(defs, ks, n) ==
    IF n = 0 THEN ks
    ELSE ReachFrom(defs, ks \cup UNION {RefEdges(defs, k) : k \in ks}, n - 1)

\* No definition of the table refers, directly or through others, to itself.
Acyclic(defs) ==
    \A i \in 1..Len(defs) :
        defs[i].k \notin ReachFrom(defs, RefEdges(defs, defs[i].k), Len(defs))

\* C5: for a table without cyclic references the synthesizer returns a value
\* and never raises; a $ref whose key the table lacks (or with no table) gives
\* the empty object, and a string fragment with an empty enum or an empty
\* fragment gives the empty object or "sample".
C5_NeverRaises ==
    (schemaPc = "done" /\ Acyclic(definitions))
    => /\ result.ok
       /\ ("$ref" \in schema.has
             /\ (definitions = <<>> \/ Resolve(definitions, RefKey(schema.ref)) = NoSchema))
          => result.val = JObj(<<>>)
       /\ (schema = NoSchema \/ schema = EnumS("string", JArr(<<>>)))
          => result.val \in {JObj(<<>>), JStr("sample")}

\* C6: the synthesizer returns on every fragment and every table, tables with
\* cyclic references included: the recursion ends before the interpreter's
\* stack does.
C6_Terminates ==
    schemaPc = "done" => result.exc # "RecursionError"

\* The stand-in for the interpreter's recursion limit cuts no recursion over a
\* table without cycles.
AcyclicFitsTheStack ==
    (schemaPc = "done" /\ Acyclic(definitions)) => result.exc # "RecursionError"

\* A $ref into a table that lacks the key gives the empty object.
MissingRefGivesEmptyObject ==
    (schemaPc = "done" /\ "$ref" \in schema.has
        /\ Resolve(definitions, RefKey(schema.ref)) = NoSchema)
    => result = Returned(JObj(<<>>))

====
